---- MODULE Spec2Model ----
(***************************************************************************)
(* A model of models/sv-hyper.py: the checkpoint/resume protocol and the   *)
(* epoch/batch loop of train(), the token augmentation random_mask, the    *)
(* positive mask and masked averages of the contrastive losses, and the    *)
(* Poincare-ball distance hyperbolic_distance.                             *)
(*                                                                         *)
(* Strings are sequences of character codes, so that file names are        *)
(* built, matched by prefix and sorted the way Python does it.  Floating   *)
(* point values are exact rationals extended with +inf, -inf and NaN, so   *)
(* that a division by zero yields what IEEE arithmetic yields.             *)
(***************************************************************************)
EXTENDS Integers, Sequences, FiniteSets, TLC

VARIABLES
    \* ---- train() ----
    config,         \* the config dict (the keys the control flow reads)
    save_dir,       \* the files of save_path: a set of [name, data]
    pc,             \* position in train()
    error,          \* the exception that ended train(), "none" otherwise
    model,          \* the state of model.parameters()
    optimizer,      \* the state of the Adam optimizer
    checkpoints,    \* line 294: the names listed from save_path
    loaded,         \* the name of the checkpoint file read by torch.load, <<>> if none
    current_epoch,  \* lines 300 / 303
    epoch,          \* the loop variable of line 309
    n,              \* the loop variable of line 310: batches completed in this epoch
    entered,        \* the epochs whose body was entered, in order
    written,        \* the file names passed to torch.save, in order
    batch_log,      \* the statements of the batch body executed by the last batch
    batches_started,\* number of batches yielded by the batch indexer so far
    opt_steps,      \* number of optimizer.step() calls so far
    lookup,         \* the lookup table encode_sequence uses, "none" before construction
    \* ---- random_mask ----
    m_pc, heap, m_x, m_out, m_token, m_prob,
    m_orig,         \* the content of x when random_mask was called
    \* ---- node_seq_loss / weighted_ns_loss ----
    l_pc, l_nodes, l_seqs, l_weights, l_swd, l_hd, l_mask, l_den, l_loss, l_error,
    \* ---- hyperbolic_distance / node_node_loss ----
    d_pc, d_z1, d_z2, d_out, d_loss, d_error

trainVars == <<config, save_dir, pc, error, model, optimizer, checkpoints, loaded,
               current_epoch, epoch, n, entered, written, batch_log,
               batches_started, opt_steps, lookup>>
maskVars == <<m_pc, heap, m_x, m_out, m_token, m_prob, m_orig>>
lossVars == <<l_pc, l_nodes, l_seqs, l_weights, l_swd, l_hd, l_mask, l_den, l_loss, l_error>>
distVars == <<d_pc, d_z1, d_z2, d_out, d_loss, d_error>>
vars == <<trainVars, maskVars, lossVars, distVars>>

(***************************************************************************)
(* Bounds of the model.                                                    *)
(***************************************************************************)
MaxEpochs == 3         \* num_epochs ranges over 0..MaxEpochs
MaxPriorEpoch == 10    \* checkpoints left by earlier runs have epochs 1..MaxPriorEpoch

(***************************************************************************)
(* Strings.                                                                *)
(***************************************************************************)
\* str(i) of a non-negative int: its decimal digits, no padding.
RECURSIVE IntToStr(_)
IntToStr(i) ==
    IF i < 10 THEN <<48 + i>> ELSE IntToStr(i \div 10) \o <<48 + (i % 10)>>

\* str(x) of the float x = tenths/10 with 0 <= x <= 1, e.g. "0.8", "1.0".
FloatToStr(tenths) == <<48 + (tenths \div 10), 46, 48 + (tenths % 10)>>

\* "_".join(parts)
RECURSIVE Join(_)
Join(parts) ==
    IF Len(parts) = 1 THEN parts[1]
    ELSE parts[1] \o <<95>> \o Join(Tail(parts))

\* f.startswith(p)
StartsWith(f, p) == Len(f) >= Len(p) /\ SubSeq(f, 1, Len(p)) = p

\* a < b for Python str: lexicographic by code point, a proper prefix first.
RECURSIVE StrLess(_, _)
StrLess(a, b) ==
    IF a = <<>> THEN b # <<>>
    ELSE IF b = <<>> THEN FALSE
    ELSE IF Head(a) = Head(b) THEN StrLess(Tail(a), Tail(b))
    ELSE Head(a) < Head(b)

\* sorted(names)[-1] of a non-empty collection of distinct names.
SortedLast(names) == CHOOSE f \in names : \A g \in names \ {f} : StrLess(g, f)

\* The mode strings of the model: 'p' (plain lookup), and two others, one of
\* which has 'p' as a proper prefix.
MODE_P == <<112>>
MODE_S == <<115>>
MODE_PS == <<112, 115>>
Modes == {MODE_P, MODE_S, MODE_PS}

\* Line 293: model_name = "_".join(['sv', str(lambda_st), str(num_samples), mode])
ModelName(cfg) ==
    Join(<< <<115, 118>>, FloatToStr(cfg.lambda_st), IntToStr(cfg.num_samples), cfg.mode >>)

\* Line 337: "_".join([model_name, f'{epoch}.pt'])
CheckpointName(name, e) == Join(<< name, IntToStr(e) \o <<46, 112, 116>> >>)


(***************************************************************************)
(* train(): configuration, model construction, checkpoints.                *)
(***************************************************************************)
\* Line 286: the keys of the activation dict.
Activations == {"relu", "prelu"}

\* A lookup that falls back to ReLU for an unknown name, as dict.get would.
ActivationOrDefault(a) ==
    [raised |-> "none", value |-> IF a \in Activations THEN a ELSE "relu"]

\* Line 286: {'relu': nn.ReLU(), 'prelu': nn.PReLU()}[config['activation']].
\* A dict subscript with a missing key raises KeyError.
ActivationLookup(a) ==
    IF a \in Activations THEN [raised |-> "none", value |-> a]
    ELSE [raised |-> "KeyError", value |-> "none"]

\* Lines 203 and 212-216: SingleViewModel stores mode unchecked; encode_sequence
\* takes the plain lookup table for 'p' and the graph-encoded one for anything else.
LookupMode(mode) == IF mode = MODE_P THEN "plain" ELSE "propagated"

\* A state of the parameters or of the optimizer: where it comes from and how
\* many optimizer steps were applied to it since.
StateOf(origin, key, e) == [origin |-> origin, key |-> key, epoch |-> e, steps |-> 0]
Unbuilt == StateOf("none", <<>>, 0)
\* Lines 288-291: the constructors' default initialisation.
Constructed == StateOf("default", <<>>, 0)
\* Line 302: model.apply(utils.weight_init)
WeightInit(m) == StateOf("weight_init", <<>>, 0)

\* Lines 333-337: the record torch.save writes.
Checkpoint(e, m, o) == [epoch |-> e, model_state_dict |-> m, optimizer_state_dict |-> o]

\* A checkpoint file an earlier run with run key `key` left after its epoch e.
PriorFile(key, e) ==
    [name |-> CheckpointName(key, e),
     data |-> Checkpoint(e, StateOf("prior_run", key, e), StateOf("prior_run", key, e))]

\* Line 337: torch.save to a path replaces the file of that name.
WriteFile(dir, name, data) ==
    {f \in dir : f.name # name} \cup {[name |-> name, data |-> data]}

\* Line 294: [f for f in os.listdir(save_path) if f.startswith(model_name)]
ListCheckpoints(dir, name) == {f.name : f \in {g \in dir : StartsWith(g.name, name)}}

\* Line 296: sorted(checkpoints)[-1]
LatestCheckpoint(names) == SortedLast(names)

\* Line 297: torch.load(os.path.join(save_path, name))
LoadFile(dir, name) == (CHOOSE f \in dir : f.name = name).data

\* A resume condition that forgets the retrain flag.
ResumeIgnoringRetrain(cfg, names) == names # {}

\* Line 295: the condition of the resume branch.
ResumeCondition(cfg, names) == ~cfg.retrain /\ names # {}

\* Line 305: the guard of the training block.
TrainingGuard(cur, num_epochs) == cur < num_epochs

\* Line 309: range(current_epoch, num_epochs + 1) still holds `e`.
InRange(e, num_epochs) == e < num_epochs + 1

\* utils.next_batch_index(rows, batch_size): the batches partition [0, rows),
\* the last one possibly smaller.
NumBatches(rows, batch_size) == (rows + batch_size - 1) \div batch_size

(***************************************************************************)
(* The batch body, lines 311-328, as the statements it executes in order.  *)
(* A call names the callee and the number of arguments passed.             *)
(***************************************************************************)
Stmt(op, nargs) == [op |-> op, nargs |-> nargs]

\* The number of parameters of the functions the body calls (lines 22, 27, 32,
\* 41 and 228; forward's self is bound by the call).
Params(op) ==
    CASE op = "node_node_loss" -> 2
      [] op = "seq_seq_loss" -> 2
      [] op = "node_seq_loss" -> 3
      [] op = "weighted_ns_loss" -> 3
      [] op = "forward" -> 3
      [] OTHER -> -1

\* Lines 314-328.
BatchBody(is_weighted) ==
    LET ns == IF is_weighted THEN "weighted_ns_loss" ELSE "node_seq_loss" IN
    << Stmt("zero_grad", 0),
       Stmt("forward", 3),
       Stmt("forward", 3),
       Stmt("node_node_loss", 3),
       Stmt("seq_seq_loss", 3),
       Stmt(ns, 4),
       Stmt(ns, 4),
       Stmt("combine", 0),
       Stmt("backward", 0),
       Stmt("step", 0) >>

\* Calling a Python function with a number of positional arguments other than
\* its number of parameters raises TypeError.
Raises(stmt) == Params(stmt.op) # -1 /\ stmt.nargs # Params(stmt.op)

\* The statements executed: all of them up to the first one that raises.
RECURSIVE Executed(_)
Executed(stmts) ==
    IF stmts = <<>> \/ Raises(Head(stmts)) THEN <<>>
    ELSE <<Head(stmts).op>> \o Executed(Tail(stmts))

Count(seq, x) == Cardinality({i \in 1..Len(seq) : seq[i] = x})

(***************************************************************************)
(* train(): initial states.                                                *)
(***************************************************************************)
Configs ==
    [activation : {"relu", "prelu", "tanh"},
     mode : Modes,
     retrain : BOOLEAN,
     num_epochs : 0..MaxEpochs,
     weighted_loss : BOOLEAN,
     lambda_st : {8},
     num_samples : {10},
     rows : {0, 1, 3},
     batch_size : {2}]

RECURSIVE SubsetsUpTo(_, _)
SubsetsUpTo(S, k) ==
    IF k = 0 THEN {{}}
    ELSE LET P == SubsetsUpTo(S, k - 1) IN P \cup {p \cup {x} : p \in P, x \in S}

\* What save_path may hold when train() starts: up to three files, checkpoints
\* of earlier runs with the same run key or of runs that differ in mode.
PriorFiles(cfg) ==
    {PriorFile(ModelName(cfg), e) : e \in 1..MaxPriorEpoch}
    \cup {PriorFile(ModelName([cfg EXCEPT !.mode = m]), 3) : m \in Modes \ {cfg.mode}}

TrainIdle ==
    /\ config = [activation |-> "relu", mode |-> MODE_P, retrain |-> FALSE,
                 num_epochs |-> 0, weighted_loss |-> FALSE, lambda_st |-> 8,
                 num_samples |-> 10, rows |-> 0, batch_size |-> 2]
    /\ save_dir = {}
    /\ pc = "idle"
    /\ error = "none"
    /\ model = Unbuilt
    /\ optimizer = Unbuilt
    /\ checkpoints = {}
    /\ loaded = <<>>
    /\ current_epoch = 0
    /\ epoch = 0
    /\ n = 0
    /\ entered = <<>>
    /\ written = <<>>
    /\ batch_log = <<>>
    /\ batches_started = 0
    /\ opt_steps = 0
    /\ lookup = "none"

TrainInit ==
    /\ config \in Configs
    /\ save_dir \in SubsetsUpTo(PriorFiles(config), 3)
    /\ pc = "config"
    /\ error = "none"
    /\ model = Unbuilt
    /\ optimizer = Unbuilt
    /\ checkpoints = {}
    /\ loaded = <<>>
    /\ current_epoch = 0
    /\ epoch = 0
    /\ n = 0
    /\ entered = <<>>
    /\ written = <<>>
    /\ batch_log = <<>>
    /\ batches_started = 0
    /\ opt_steps = 0
    /\ lookup = "none"

(***************************************************************************)
(* train(): one action per step of the function.                           *)
(***************************************************************************)
\* Lines 272-286: read the config; the activation lookup may raise.
ReadConfig ==
    /\ UNCHANGED <<maskVars, lossVars, distVars>>
    /\ pc = "config"
    /\ LET act == ActivationLookup(config.activation) IN
         /\ error' = act.raised
         /\ pc' = IF act.raised = "none" THEN "construct" ELSE "raised"
    /\ UNCHANGED <<config, save_dir, model, optimizer, checkpoints, loaded,
                   current_epoch, epoch, n, entered, written, batch_log,
                   batches_started, opt_steps, lookup>>

\* Lines 288-291: build the encoders, the model and the optimizer.
Construct ==
    /\ UNCHANGED <<maskVars, lossVars, distVars>>
    /\ pc = "construct"
    /\ model' = Constructed
    /\ optimizer' = Constructed
    /\ lookup' = LookupMode(config.mode)
    /\ pc' = "scan"
    /\ UNCHANGED <<config, save_dir, error, checkpoints, loaded, current_epoch,
                   epoch, n, entered, written, batch_log, batches_started, opt_steps>>

\* Lines 293-294: list the files of save_path that start with the model name.
ScanCheckpoints ==
    /\ UNCHANGED <<maskVars, lossVars, distVars>>
    /\ pc = "scan"
    /\ checkpoints' = ListCheckpoints(save_dir, ModelName(config))
    /\ pc' = "branch"
    /\ UNCHANGED <<config, save_dir, error, model, optimizer, loaded, current_epoch,
                   epoch, n, entered, written, batch_log, batches_started, opt_steps, lookup>>

\* Lines 295-300: load the last name of the sorted list.
Resume ==
    /\ UNCHANGED <<maskVars, lossVars, distVars>>
    /\ pc = "branch"
    /\ ResumeCondition(config, checkpoints)
    /\ LET name == LatestCheckpoint(checkpoints)
           checkpoint == LoadFile(save_dir, name) IN
         /\ loaded' = name
         /\ model' = checkpoint.model_state_dict
         /\ optimizer' = checkpoint.optimizer_state_dict
         /\ current_epoch' = checkpoint.epoch + 1
    /\ pc' = "guard"
    /\ UNCHANGED <<config, save_dir, error, checkpoints, epoch, n, entered, written,
                   batch_log, batches_started, opt_steps, lookup>>

\* Lines 301-303: initialise the weights and start at epoch 1.
FreshStart ==
    /\ UNCHANGED <<maskVars, lossVars, distVars>>
    /\ pc = "branch"
    /\ ~ResumeCondition(config, checkpoints)
    /\ model' = WeightInit(model)
    /\ current_epoch' = 1
    /\ pc' = "guard"
    /\ UNCHANGED <<config, save_dir, error, optimizer, checkpoints, loaded, epoch, n,
                   entered, written, batch_log, batches_started, opt_steps, lookup>>

\* Lines 305-309: the guard of the training block; the data is loaded and the
\* epoch loop starts at current_epoch, or the block is skipped.
CheckEpochs ==
    /\ UNCHANGED <<maskVars, lossVars, distVars>>
    /\ pc = "guard"
    /\ IF TrainingGuard(current_epoch, config.num_epochs)
       THEN epoch' = current_epoch /\ pc' = "for_epoch"
       ELSE epoch' = epoch /\ pc' = "return"
    /\ UNCHANGED <<config, save_dir, error, model, optimizer, checkpoints, loaded,
                   current_epoch, n, entered, written, batch_log, batches_started,
                   opt_steps, lookup>>

\* Line 309: the next value of range(current_epoch, num_epochs + 1), if any.
EnterEpoch ==
    /\ UNCHANGED <<maskVars, lossVars, distVars>>
    /\ pc = "for_epoch"
    /\ IF InRange(epoch, config.num_epochs)
       THEN /\ entered' = Append(entered, epoch)
            /\ n' = 0
            /\ pc' = "batches"
       ELSE /\ UNCHANGED <<entered, n>>
            /\ pc' = "return"
    /\ UNCHANGED <<config, save_dir, error, model, optimizer, checkpoints, loaded,
                   current_epoch, epoch, written, batch_log, batches_started, opt_steps, lookup>>

\* Lines 310-331: the body of the batch loop for the next batch.
TrainBatch ==
    /\ UNCHANGED <<maskVars, lossVars, distVars>>
    /\ pc = "batches"
    /\ n < NumBatches(config.rows, config.batch_size)
    /\ LET body == BatchBody(config.weighted_loss)
           done == Executed(body)
           steps == Count(done, "step") IN
         /\ batch_log' = done
         /\ batches_started' = batches_started + 1
         /\ opt_steps' = opt_steps + steps
         /\ model' = [model EXCEPT !.steps = @ + steps]
         /\ optimizer' = [optimizer EXCEPT !.steps = @ + steps]
         /\ IF Len(done) < Len(body)
            THEN error' = "TypeError" /\ pc' = "raised" /\ n' = n
            ELSE error' = error /\ pc' = pc /\ n' = n + 1
    /\ UNCHANGED <<config, save_dir, checkpoints, loaded, current_epoch, epoch,
                   entered, written, lookup>>

\* Lines 333-337: after the last batch of the epoch, write its checkpoint.
SaveCheckpoint ==
    /\ UNCHANGED <<maskVars, lossVars, distVars>>
    /\ pc = "batches"
    /\ n = NumBatches(config.rows, config.batch_size)
    /\ LET name == CheckpointName(ModelName(config), epoch) IN
         /\ save_dir' = WriteFile(save_dir, name, Checkpoint(epoch, model, optimizer))
         /\ written' = Append(written, name)
    /\ epoch' = epoch + 1
    /\ pc' = "for_epoch"
    /\ UNCHANGED <<config, error, model, optimizer, checkpoints, loaded, current_epoch,
                   n, entered, batch_log, batches_started, opt_steps, lookup>>

\* Line 339: return model.
Return ==
    /\ UNCHANGED <<maskVars, lossVars, distVars>>
    /\ pc = "return"
    /\ pc' = "done"
    /\ UNCHANGED <<config, save_dir, error, model, optimizer, checkpoints, loaded,
                   current_epoch, epoch, n, entered, written, batch_log,
                   batches_started, opt_steps, lookup>>


TrainNext ==
    \/ ReadConfig \/ Construct \/ ScanCheckpoints \/ Resume \/ FreshStart
    \/ CheckEpochs \/ EnterEpoch \/ TrainBatch \/ SaveCheckpoint \/ Return

(***************************************************************************)
(* random_mask (lines 119-126).  Tensors live in a heap, so that writing   *)
(* through a reference is seen by every holder of the reference.           *)
(***************************************************************************)
MaskLen == 3      \* number of positions of x
MaskVocab == 2    \* tokens range over 0..MaskVocab
Grain == 2        \* draws are k/Grain, k in 0..Grain-1; mask_prob is j/Grain, j in 0..Grain

\* A mask that also takes the draws equal to mask_prob.
MaskPosInclusive(u, prob) == [i \in DOMAIN u |-> u[i] <= prob]

\* Lines 120-123: torch.empty(x.size()).uniform_(0, 1) < mask_prob, for draws u.
MaskPos(u, prob) == [i \in DOMAIN u |-> u[i] < prob]

\* Line 124: x.clone() allocates a tensor holding a copy of x.
Clone(h, ref) ==
    LET new == Cardinality(DOMAIN h) + 1 IN [ref |-> new, heap |-> h @@ (new :> h[ref])]

\* Line 125: x[mask_pos] = mask_token writes in place.
MaskedFill(h, ref, mask_pos, token) ==
    [h EXCEPT ![ref] = [i \in DOMAIN @ |-> IF mask_pos[i] THEN token ELSE @[i]]]

MaskIdle ==
    /\ m_pc = "idle"
    /\ heap = <<>>
    /\ m_x = 0
    /\ m_out = 0
    /\ m_token = 0
    /\ m_prob = 0
    /\ m_orig = <<>>

MaskInit ==
    /\ m_pc = "call"
    /\ heap \in {<<x>> : x \in [1..MaskLen -> 0..MaskVocab]}
    /\ m_x = 1
    /\ m_out = 0
    /\ m_token \in 0..MaskVocab
    /\ m_prob \in 0..Grain
    /\ m_orig = heap[1]

\* Lines 119-126: one call of random_mask(x, mask_token, mask_prob).
RandomMask ==
    /\ UNCHANGED <<trainVars, lossVars, distVars>>
    /\ m_pc = "call"
    /\ \E u \in [1..MaskLen -> 0..(Grain - 1)] :
         LET mask_pos == MaskPos(u, m_prob)
             c == Clone(heap, m_x) IN
           /\ heap' = MaskedFill(c.heap, c.ref, mask_pos, m_token)
           /\ m_out' = c.ref
    /\ m_pc' = "returned"
    /\ UNCHANGED <<m_x, m_token, m_prob, m_orig>>

MaskNext == RandomMask

(***************************************************************************)
(* Floating point values: a rational num/den with den > 0, or +inf, -inf,  *)
(* NaN.                                                                    *)
(***************************************************************************)
Fin(a, b) == [k |-> "fin", num |-> a, den |-> b]
NaN == [k |-> "nan", num |-> 0, den |-> 1]
PInf == [k |-> "pinf", num |-> 0, den |-> 1]
NInf == [k |-> "ninf", num |-> 0, den |-> 1]
\* No value: the function has not returned one.
Unset == [k |-> "unset", num |-> 0, den |-> 1]

\* x / y for a finite or infinite x and a finite y (a zero y is +0.0).
FDiv(x, y) ==
    IF x.k = "nan" \/ y.k = "nan" THEN NaN
    ELSE IF y.num = 0
         THEN IF x.k = "fin"
              THEN (IF x.num = 0 THEN NaN ELSE IF x.num > 0 THEN PInf ELSE NInf)
              ELSE x
    ELSE IF x.k = "fin"
         THEN (IF y.num > 0 THEN Fin(x.num * y.den, x.den * y.num)
               ELSE Fin(-(x.num * y.den), x.den * (-y.num)))
    ELSE IF (x.k = "pinf") = (y.num > 0) THEN PInf ELSE NInf

\* x + y for a finite y.
FAdd(x, y) ==
    IF x.k = "nan" \/ y.k = "nan" THEN NaN
    ELSE IF x.k = "fin" THEN Fin(x.num * y.den + y.num * x.den, x.den * y.den)
    ELSE x

\* x * m for a mask entry m in {0, 1}: inf * 0 is NaN.
FMulMask(x, m) ==
    IF m = 1 THEN x
    ELSE IF x.k \in {"fin", "acosh"} THEN Fin(0, 1)
    ELSE NaN

\* torch.acosh(x): NaN below 1, +inf at +inf.
Acosh(x) ==
    IF x.k = "nan" \/ x.k = "ninf" THEN NaN
    ELSE IF x.k = "pinf" THEN PInf
    ELSE IF x.num < x.den THEN NaN
    ELSE [k |-> "acosh", num |-> x.num, den |-> x.den]

RECURSIVE SumSeq(_)
SumSeq(q) == IF q = <<>> THEN 0 ELSE Head(q) + SumSeq(Tail(q))

(***************************************************************************)
(* node_seq_loss (lines 32-39) and weighted_ns_loss (lines 41-42).         *)
(* Columns of a mask are numbered from 0, as node ids are.                 *)
(***************************************************************************)
MaxNodes == 3     \* num_nodes = node_rep.shape[0] ranges over 1..MaxNodes
SeqLen == 2       \* the length of every token sequence
BatchSizes == {1, 2}

\* Line 35: torch.zeros((batch_size, width))
Zeros(batch, width) == [b \in 1..batch |-> [c \in 0..(width - 1) |-> 0]]

\* Line 37: pos_mask[row_idx][row] = 1. sets the columns the tokens of row name.
Scatter(mask_row, row) ==
    [c \in DOMAIN mask_row |-> IF \E i \in DOMAIN row : row[i] = c THEN 1 ELSE mask_row[c]]

\* A slice that drops the first column instead, pos_mask[:, 1:].
DropFirst(mask, width) == [b \in DOMAIN mask |-> [c \in 0..(width - 2) |-> mask[b][c + 1]]]

\* Line 38: pos_mask[:, :-1] drops the last column.
DropLast(mask, width) == [b \in DOMAIN mask |-> [c \in 0..(width - 2) |-> mask[b][c]]]

\* Lines 33-38.
PosMask(sequences, num_nodes) ==
    LET batch_size == Len(sequences)
        zeros == Zeros(batch_size, num_nodes + 1)
        filled == [b \in 1..batch_size |-> Scatter(zeros[b], sequences[b])]
    IN DropLast(filled, num_nodes + 1)

\* m.sum() of a (batch, width) matrix of integers.
MatSum(m, width) ==
    SumSeq([i \in 1..(Len(m) * width) |-> m[((i - 1) \div width) + 1][(i - 1) % width]])

\* (d * m).sum() / m.sum() for a scalar distance d >= 0 and an integer matrix m:
\* lines 39 and 42.  The division is carried out whatever the denominator.
MaskedAverage(d, m, width) == FDiv(Fin(d * MatSum(m, width), 1), Fin(MatSum(m, width), 1))

\* Line 16 subtracts z1 and z2 row-wise: the row counts must agree or be 1.
Broadcastable(rows1, rows2) == rows1 = rows2 \/ rows1 = 1 \/ rows2 = 1

LossIdle ==
    /\ l_pc = "idle"
    /\ l_nodes = 0
    /\ l_seqs = <<>>
    /\ l_weights = <<>>
    /\ l_swd = 0
    /\ l_hd = NaN
    /\ l_mask = <<>>
    /\ l_den = 0
    /\ l_loss = Unset
    /\ l_error = "none"

\* A call of node_seq_loss on token sequences, or of weighted_ns_loss on a
\* weight matrix.  l_swd is the value sliced_wasserstein_distance returns and
\* l_hd the mean of hyperbolic_distance, when it is defined.
LossInit ==
    /\ l_nodes \in 1..MaxNodes
    /\ l_swd \in {0, 2}
    /\ l_hd \in {Fin(1, 1), NaN}
    /\ \E batch \in BatchSizes :
         \/ /\ l_pc = "node_seq_loss"
            /\ l_seqs \in [1..batch -> [1..SeqLen -> 0..l_nodes]]
            /\ l_weights = <<>>
         \/ /\ l_pc = "weighted_ns_loss"
            /\ l_hd = NaN
            /\ l_seqs = <<>>
            /\ l_weights \in [1..batch -> [0..(l_nodes - 1) -> {0, 1}]]
    /\ l_mask = <<>>
    /\ l_den = 0
    /\ l_loss = Unset
    /\ l_error = "none"

\* Lines 32-39.
NodeSeqLoss ==
    /\ UNCHANGED <<trainVars, maskVars, distVars>>
    /\ l_pc = "node_seq_loss"
    /\ LET pos_mask == PosMask(l_seqs, l_nodes)
           masked == MaskedAverage(l_swd, pos_mask, l_nodes) IN
         /\ l_mask' = pos_mask
         /\ l_den' = MatSum(pos_mask, l_nodes)
         /\ IF Broadcastable(Len(l_seqs), l_nodes)
            THEN l_loss' = FAdd(masked, l_hd) /\ l_error' = "none"
            ELSE l_loss' = l_loss /\ l_error' = "RuntimeError"
    /\ l_pc' = "done"
    /\ UNCHANGED <<l_nodes, l_seqs, l_weights, l_swd, l_hd>>

\* Lines 41-42.
WeightedNsLoss ==
    /\ UNCHANGED <<trainVars, maskVars, distVars>>
    /\ l_pc = "weighted_ns_loss"
    /\ l_den' = MatSum(l_weights, l_nodes)
    /\ l_loss' = MaskedAverage(l_swd, l_weights, l_nodes)
    /\ l_pc' = "done"
    /\ UNCHANGED <<l_nodes, l_seqs, l_weights, l_swd, l_hd, l_mask, l_error>>

LossNext == NodeSeqLoss \/ WeightedNsLoss

(***************************************************************************)
(* hyperbolic_distance (lines 15-16) and node_node_loss (lines 22-25) on   *)
(* rows of dimension 1 whose coordinate is k/2 for an integer k: the       *)
(* squared norm of a row is k*k/4 and it is >= 1 exactly when |k| >= 2.    *)
(***************************************************************************)
MaxCoord == 3     \* k ranges over -MaxCoord..MaxCoord
DistRows == {1, 2}

\* Line 16, for one pair of rows.
HyperbolicDistanceRow(k1, k2) ==
    LET dsq == Fin((k1 - k2) * (k1 - k2), 4)
        a == Fin(2 * dsq.num, dsq.den)
        b == FDiv(a, Fin(4 - k1 * k1, 4))
        c == FDiv(b, Fin(4 - k2 * k2, 4))
    IN Acosh(FAdd(c, Fin(1, 1)))

\* Line 16: one distance per row index.
HyperbolicDistance(z1, z2) == [i \in DOMAIN z1 |-> HyperbolicDistanceRow(z1[i], z2[i])]

\* Line 25: (d * eye(n)).sum() / eye(n).sum(), d broadcast along the rows.
\* The result is NaN or +inf as soon as one product is, else the mean of the
\* diagonal terms.
DiagonalAverage(d) ==
    LET rows == Len(d)
        prod == [i \in 1..rows |-> [j \in 1..rows |-> FMulMask(d[j], IF i = j THEN 1 ELSE 0)]]
        all == {prod[i][j] : i \in 1..rows, j \in 1..rows}
    IN IF NaN \in all THEN [k |-> "nan", terms |-> <<>>, den |-> rows]
       ELSE IF PInf \in all THEN [k |-> "pinf", terms |-> <<>>, den |-> rows]
       ELSE [k |-> "fin", terms |-> d, den |-> rows]

InsideBall(k) == k * k < 4

DistIdle ==
    /\ d_pc = "idle"
    /\ d_z1 = <<>>
    /\ d_z2 = <<>>
    /\ d_out = <<>>
    /\ d_loss = [k |-> "unset", terms |-> <<>>, den |-> 0]
    /\ d_error = "none"

DistInit ==
    /\ d_pc \in {"hyperbolic_distance", "node_node_loss"}
    /\ \E rows \in DistRows :
         /\ d_z1 \in [1..rows -> -MaxCoord..MaxCoord]
         /\ d_z2 \in [1..rows -> -MaxCoord..MaxCoord]
    /\ d_out = <<>>
    /\ d_loss = [k |-> "unset", terms |-> <<>>, den |-> 0]
    /\ d_error = "none"

\* Lines 15-16: a direct call.
CallHyperbolicDistance ==
    /\ UNCHANGED <<trainVars, maskVars, lossVars>>
    /\ d_pc = "hyperbolic_distance"
    /\ d_out' = HyperbolicDistance(d_z1, d_z2)
    /\ d_pc' = "done"
    /\ UNCHANGED <<d_z1, d_z2, d_loss, d_error>>

\* Lines 22-25.
NodeNodeLoss ==
    /\ UNCHANGED <<trainVars, maskVars, lossVars>>
    /\ d_pc = "node_node_loss"
    /\ d_out' = HyperbolicDistance(d_z1, d_z2)
    /\ d_loss' = DiagonalAverage(HyperbolicDistance(d_z1, d_z2))
    /\ d_pc' = "done_loss"
    /\ UNCHANGED <<d_z1, d_z2, d_error>>

DistNext == CallHyperbolicDistance \/ NodeNodeLoss

(***************************************************************************)
(* Specifications.                                                         *)
(***************************************************************************)
\* train() on every configuration and content of save_path.
Init == TrainInit /\ MaskIdle /\ LossIdle /\ DistIdle
Next == TrainNext
Spec == Init /\ [][Next]_vars

\* random_mask on every input.
InitMask == TrainIdle /\ MaskInit /\ LossIdle /\ DistIdle
SpecMask == InitMask /\ [][MaskNext]_vars

\* node_seq_loss and weighted_ns_loss on every input.
InitLoss == TrainIdle /\ MaskIdle /\ LossInit /\ DistIdle
SpecLoss == InitLoss /\ [][LossNext]_vars

\* hyperbolic_distance and node_node_loss on every input.
InitDist == TrainIdle /\ MaskIdle /\ LossIdle /\ DistInit
SpecDist == InitDist /\ [][DistNext]_vars


(***************************************************************************)
(* Properties of train().                                                  *)
(***************************************************************************)
\* The epochs of the checkpoints of this run key that save_path holds.
RunKeyEpochs ==
    {e \in 1..(MaxPriorEpoch + MaxEpochs + 1) :
        \E f \in save_dir : f.name = CheckpointName(ModelName(config), e)}

MaxOf(S) == CHOOSE x \in S : \A y \in S : y <= x

\* train() has taken the resume-or-fresh branch and written nothing yet.
Branched == pc = "guard"

\* C1: with retrain=False and checkpoints of the run key in save_path, train()
\* loads the one with the numerically greatest epoch E, takes the model and
\* optimizer states from it, and sets the first epoch to E + 1.
\* (Stated for a save_path in which only checkpoints of this run key match the
\* model name.)
C1_LoadsGreatestEpoch ==
    (/\ Branched
     /\ ~config.retrain
     /\ RunKeyEpochs # {}
     /\ \A f \in save_dir : StartsWith(f.name, ModelName(config)) =>
            \E e \in RunKeyEpochs : f.name = CheckpointName(ModelName(config), e)) =>
        LET E == MaxOf(RunKeyEpochs)
            file == PriorFile(ModelName(config), E) IN
          /\ loaded = file.name
          /\ model = file.data.model_state_dict
          /\ optimizer = file.data.optimizer_state_dict
          /\ current_epoch = E + 1

EpochRange(s, last) == [i \in 1..(IF s <= last THEN last - s + 1 ELSE 0) |-> s + i - 1]

\* C3: train() returns having trained exactly the epochs current_epoch ..
\* num_epochs, in order, when current_epoch <= num_epochs (also when they are
\* equal), and none when current_epoch > num_epochs.
C3_TrainsThroughNumEpochs ==
    (pc = "done") => entered = EpochRange(current_epoch, config.num_epochs)

\* C4: at every epoch boundary, and when train() ends, each epoch entered has
\* exactly one checkpoint written, in order, named run_key_<epoch>.pt.
C4_CheckpointPerEpoch ==
    (pc \in {"for_epoch", "return", "done", "raised"}) =>
        written = [i \in 1..Len(entered) |->
                      CheckpointName(ModelName(config), entered[i])]

\* The activation names train() accepts and the mode value the program names.
KnownActivations == {"relu", "prelu"}
NamedModes == {MODE_P}

\* train() has got past the construction of the model.
PastConstruction == pc \notin {"config", "construct", "raised"} \/ error = "TypeError"

\* C9 as claimed: a configuration with an unknown activation or with a mode
\* other than a recognized one never gets past model construction.  No list of
\* mode names exists in the program; 'p' is the one value it names, and the
\* statement fails the same way for any list that leaves a value out.
C9_RejectsUnknownActivationOrMode ==
    (config.activation \notin KnownActivations \/ config.mode \notin NamedModes)
        => ~PastConstruction

\* C9 as amended: an activation other than 'relu' / 'prelu' ends train() with a
\* KeyError before the model is constructed, a checkpoint is read, a batch is
\* run or a parameter is updated; the mode is not validated, every value gets
\* past construction, 'p' selecting the plain lookup table and any other value
\* the propagated one.
C9_ActivationCheckedModeNot ==
    /\ (config.activation \notin KnownActivations /\ pc # "config") =>
          /\ pc = "raised"
          /\ error = "KeyError"
          /\ model = Unbuilt
          /\ optimizer = Unbuilt
          /\ lookup = "none"
          /\ checkpoints = {}
          /\ loaded = <<>>
          /\ batches_started = 0
          /\ opt_steps = 0
          /\ written = <<>>
    /\ (config.activation \in KnownActivations /\ pc \notin {"config", "construct"}) =>
          /\ error # "KeyError"
          /\ model # Unbuilt
          /\ lookup = IF config.mode = MODE_P THEN "plain" ELSE "propagated"

\* C9 witness: train() ended by the KeyError of an unknown activation.
C9_Witness ==
    /\ config.activation = "tanh"
    /\ pc = "raised"
    /\ error = "KeyError"
    /\ model = Unbuilt

\* C10: every batch yielded runs the whole body in order, ending in exactly one
\* optimizer step, so that after k batches there were k optimizer steps.
C10_OneStepPerBatch ==
    /\ opt_steps = batches_started
    /\ (batches_started > 0) =>
          batch_log = <<"zero_grad", "forward", "forward", "node_node_loss",
                        "seq_seq_loss",
                        IF config.weighted_loss THEN "weighted_ns_loss" ELSE "node_seq_loss",
                        IF config.weighted_loss THEN "weighted_ns_loss" ELSE "node_seq_loss",
                        "combine", "backward", "step">>

(***************************************************************************)
(* Properties of random_mask.                                              *)
(***************************************************************************)
\* C5: random_mask returns x unchanged for mask_prob = 0 and all mask_token for
\* mask_prob = 1, whatever the draws; for any mask_prob every position of the
\* result holds the original token or mask_token; the input is not modified.
C5_RandomMask ==
    (m_pc = "returned") =>
        /\ (m_prob = 0) => heap[m_out] = m_orig
        /\ (m_prob = Grain) => heap[m_out] = [i \in 1..MaskLen |-> m_token]
        /\ \A i \in 1..MaskLen : heap[m_out][i] \in {m_orig[i], m_token}
        /\ heap[m_x] = m_orig

\* C5 witness: mask_prob = 1 replaced a token that was not mask_token, and the
\* input still holds it.
C5_Witness ==
    /\ m_pc = "returned"
    /\ m_prob = Grain
    /\ \E i \in 1..MaskLen : m_orig[i] # m_token /\ heap[m_out][i] = m_token
    /\ heap[m_x] = m_orig

(***************************************************************************)
(* Properties of the losses.                                               *)
(***************************************************************************)
\* C6: the positive mask of node_seq_loss has shape (batch, V) and entry (b, v)
\* is 1 exactly when node id v < V occurs in sequence b, 0 otherwise.
C6_PositiveMask ==
    (l_pc = "done" /\ l_seqs # <<>>) =>
        /\ DOMAIN l_mask = 1..Len(l_seqs)
        /\ \A b \in 1..Len(l_seqs) :
             /\ DOMAIN l_mask[b] = 0..(l_nodes - 1)
             /\ \A v \in 0..(l_nodes - 1) :
                  l_mask[b][v] = IF \E i \in 1..SeqLen : l_seqs[b][i] = v THEN 1 ELSE 0

\* C6 witness: sequences [[0,1],[1,2]] with V = 3 give ones exactly at (0,0),
\* (0,1), (1,1), (1,2).
C6_Witness ==
    /\ l_pc = "done"
    /\ l_nodes = 3
    /\ l_seqs = << <<0, 1>>, <<1, 2>> >>
    /\ l_mask = << (0 :> 1 @@ 1 :> 1 @@ 2 :> 0), (0 :> 0 @@ 1 :> 1 @@ 2 :> 1) >>

\* C7: when the sum of the mask or weight matrix is zero, the loss computation
\* ends in a degenerate-batch error and returns no value.
C7_ZeroDenominatorRaises ==
    (l_pc = "done" /\ l_den = 0) =>
        /\ l_error = "DegenerateBatchError"
        /\ l_loss = Unset

\* C8: when a row of norm >= 1 is passed to hyperbolic_distance, directly or
\* through node_node_loss, the call ends in a geometry-domain error and returns
\* no value.
C8_OutsideBallRaises ==
    (/\ d_pc \in {"done", "done_loss"}
     /\ \E i \in DOMAIN d_z1 : ~InsideBall(d_z1[i]) \/ ~InsideBall(d_z2[i])) =>
        /\ d_error = "GeometryDomainError"
        /\ d_out = <<>>

====
